---- MODULE Spec2Model ----
(***************************************************************************)
(* Grammar School: the interpretation core (interpreter.py, grammar.py).   *)
(* A CallChain is interpreted into Actions by dispatching every Call to    *)
(* the verb handler registered under its name, threading a context value   *)
(* from one handler to the next.  The loop is a Python generator           *)
(* (interpret_stream); the eager form (interpret / compile) drains it, and *)
(* Grammar.execute feeds the drained plan to the runtime.                  *)
(*                                                                         *)
(* The parser (Lark) is consumed as a black box: a source text is          *)
(* identified with the CallChain it parses to.                             *)
(***************************************************************************)
EXTENDS Integers, Sequences, FiniteSets, TLC

VARIABLES
    verb_handlers,   \* Interpreter._verb_handlers: name -> bound handler
    code,            \* the CallChain of the source text the client works on
    gen,             \* the generator object of the open streaming pass
    streamed,        \* what the consumer of the stream got from its pulls
    stream_calls,    \* handler invocations made by the streaming pass
    compiled,        \* outcome of Grammar.compile(code), NotRun before
    compile_calls,   \* handler invocations made by that compile
    executed,        \* outcome of Grammar.execute(...), NotRun before
    execute_calls,   \* handler invocations made by that execute
    runtime_actions, \* what runtime.execute was called with, in order
    prev_context,    \* context the latest finished pass ended with
    last_op,         \* what the latest operation on the stream did
    passes           \* the streaming passes a second consumer holds open

vars == <<verb_handlers, code, gen, streamed, stream_calls, compiled,
          compile_calls, executed, execute_calls, runtime_actions,
          prev_context, last_op, passes>>

----------------------------------------------------------------------------
(* Bounds *)

\* longest call chain of a source text
MaxCalls == 3
\* most arguments of a call whose coercion is examined
MaxArgs == 3
\* longest call chain of each of two passes that are open together
MaxPassCalls == 2

----------------------------------------------------------------------------
(* Python values.  Every value is a record [t, v, items]: t is the Python  *)
(* type, v the text identifying a scalar, items the elements of a tuple or *)
(* list (scalars).                                                         *)

Scalar(t, v) == [t |-> t, v |-> v, items |-> <<>>]
None == Scalar("NoneType", "None")
Str(s) == Scalar("str", s)
Number(s) == Scalar("int", s)
Bool(s) == Scalar("bool", s)
\* runtime.Action(kind=k, ...)
Action(k) == Scalar("Action", k)
\* runtime.Action(kind=k, payload={...}): the items are those of the payload
ActionWith(k, payload) == [t |-> "Action", v |-> k, items |-> payload]
\* a bound method of the DSL object
BoundHandler(name) == Scalar("method", name)
Tuple(xs) == [t |-> "tuple", v |-> "", items |-> xs]
List(xs) == [t |-> "list", v |-> "", items |-> xs]

\* isinstance(x, Action)
IsAction(x) == x.t = "Action"

----------------------------------------------------------------------------
(* AST (ast.py).  A Value is [kind, value]; a Call is [name, args] where   *)
(* args is the dict name -> Value, kept as the sequence of its items in    *)
(* insertion order.  A key is the sequence of the pieces its text splits   *)
(* into at "_": "_positional_0" is <<"", "positional", "0">>.              *)

Value(kind, value) == [kind |-> kind, value |-> value]
Item(key, val) == [key |-> key, val |-> val]
Call(name, args) == [name |-> name, args |-> args]

Key(name) == <<name>>
PositionalKey(suffix) == <<"", "positional", suffix>>
ContextKey == <<"", "context">>
SyntheticPositionalKey == <<"", "positional">>

\* dict lookup helpers on a sequence of items
HasKey(d, k) == \E n \in 1..Len(d) : d[n].key = k
Lookup(d, k) == d[CHOOSE n \in 1..Len(d) : d[n].key = k].val
\* d[k] = v: replaces the value in place when k is present, appends otherwise
SetItem(d, k, v) ==
    IF HasKey(d, k)
    THEN [n \in 1..Len(d) |-> IF d[n].key = k THEN Item(k, v) ELSE d[n]]
    ELSE Append(d, Item(k, v))

----------------------------------------------------------------------------
(* Errors.  An exception is [exc, what, verb, result].                     *)

NoError == [exc |-> "", what |-> "", verb |-> "", result |-> None]
\* ValueError(f"Unknown verb: {call.name}")
UnknownVerbError(name) ==
    [exc |-> "ValueError", what |-> "Unknown verb", verb |-> name, result |-> None]
\* ValueError(f"Verb handler {call.name} returned invalid result: {result}")
InvalidResultError(name, result) ==
    [exc |-> "ValueError", what |-> "returned invalid result", verb |-> name,
     result |-> result]
\* handler(**args, _context=context) with "_context" among args
DuplicateContextError(name) ==
    [exc |-> "TypeError", what |-> "multiple values for keyword argument _context",
     verb |-> name, result |-> None]
\* sorted() comparing two Value objects
UnorderableError ==
    [exc |-> "TypeError", what |-> "'<' not supported between instances of Value",
     verb |-> "", result |-> None]
\* handler(**args, _context=context) with a name among args that is no
\* parameter of the handler
UnexpectedKeywordError(name) ==
    [exc |-> "TypeError", what |-> "got an unexpected keyword argument",
     verb |-> name, result |-> None]
\* an exception raised inside a handler
HandlerError(name) ==
    [exc |-> "RuntimeError", what |-> "raised by handler", verb |-> name,
     result |-> None]
\* an exception raised by runtime.execute
RuntimeFailure ==
    [exc |-> "RuntimeError", what |-> "raised by runtime", verb |-> "",
     result |-> None]

----------------------------------------------------------------------------
(* The DSL object and its verb registry.                                   *)

\* dir(self.dsl): the members of the Grammar subclass the model runs.
\* parse/compile/stream/execute are Grammar's own methods (no _is_verb),
\* runtime is a plain attribute.
DslMembers ==
    { [name |-> "track",     callable |-> TRUE,  is_verb |-> TRUE],
      [name |-> "mark",      callable |-> TRUE,  is_verb |-> TRUE],
      [name |-> "noop",      callable |-> TRUE,  is_verb |-> TRUE],
      [name |-> "burst",     callable |-> TRUE,  is_verb |-> TRUE],
      [name |-> "nothing",   callable |-> TRUE,  is_verb |-> TRUE],
      [name |-> "text_pair", callable |-> TRUE,  is_verb |-> TRUE],
      [name |-> "mixed",     callable |-> TRUE,  is_verb |-> TRUE],
      [name |-> "boom",      callable |-> TRUE,  is_verb |-> TRUE],
      [name |-> "probe",     callable |-> TRUE,  is_verb |-> TRUE],
      [name |-> "nested",    callable |-> TRUE,  is_verb |-> TRUE],
      [name |-> "map",       callable |-> TRUE,  is_verb |-> TRUE],
      [name |-> "filter",    callable |-> TRUE,  is_verb |-> TRUE],
      [name |-> "reduce",    callable |-> TRUE,  is_verb |-> TRUE],
      [name |-> "compose",   callable |-> TRUE,  is_verb |-> TRUE],
      [name |-> "pipe",      callable |-> TRUE,  is_verb |-> TRUE],
      [name |-> "compile",   callable |-> TRUE,  is_verb |-> FALSE],
      [name |-> "execute",   callable |-> TRUE,  is_verb |-> FALSE],
      [name |-> "runtime",   callable |-> FALSE, is_verb |-> FALSE] }

\* Interpreter._collect_verbs: every callable member marked _is_verb
CollectVerbs(members) ==
    LET names == { m.name : m \in { x \in members : x.callable /\ x.is_verb } }
    IN  [n \in names |-> BoundHandler(n)]

\* What a handler of the DSL object does when called with the coerced
\* arguments and the context: [raised, ret].  The handlers cover the return
\* shapes: track a single Action; mark an (Action, context) pair, handing on
\* "state" when it got no context and None when it got one; noop and burst
\* lists of Actions; nothing, text_pair and mixed values outside the
\* contract; boom raises.  probe(self, _context=None, **kwargs) takes any
\* keyword arguments and returns a single Action.  nested interprets a
\* text of its own on the same interpreter, return self.compile("ghost()"),
\* and ghost is no verb: the exception of that inner pass leaves the
\* handler.
Returned(x) == [raised |-> FALSE, ret |-> x]
Raised == [raised |-> TRUE, ret |-> None]
RaisedAs(error) == [raised |-> TRUE, ret |-> None, error |-> error]

\* FunctionalMixin (functional.py).  Its verbs are declared
\* (self, _positional=None, _context=None).
FunctionalVerbs == {"map", "filter", "reduce", "compose", "pipe"}
\* callable(x)
Callable(x) == x.t = "method"
\* bool(x)
Truthy(x) ==
    CASE x.t = "NoneType"          -> FALSE
      [] x.t = "int"               -> x.v # "0"
      [] x.t = "str"               -> x.v # ""
      [] x.t = "bool"              -> x.v # "False"
      [] x.t \in {"list", "tuple"} -> x.items # <<>>
      [] OTHER                     -> TRUE
\* f.__name__ if callable(f) else f
NameOf(f) == IF Callable(f) THEN Str(f.v) ELSE f
\* the parameter _positional of a functional verb called with args
PositionalParameter(args) ==
    IF HasKey(args, SyntheticPositionalKey)
    THEN Lookup(args, SyntheticPositionalKey) ELSE None
\* isinstance(_positional, list) and len(_positional) >= 2
AtLeastTwo(positional) == positional.t = "list" /\ Len(positional.items) >= 2

\* lines 39-45
map(positional) ==
    LET func == IF AtLeastTwo(positional) THEN positional.items[1] ELSE positional
        data == IF AtLeastTwo(positional) THEN positional.items[2] ELSE None
    IN  ActionWith("map", <<Item(<<"func">>, NameOf(func)),
                            Item(<<"data">>, data),
                            Item(<<"", "func", "ref">>, func)>>)
\* lines 61-70
filter(positional) ==
    LET predicate == IF AtLeastTwo(positional) THEN positional.items[1] ELSE positional
        data == IF AtLeastTwo(positional) THEN positional.items[2] ELSE None
    IN  ActionWith("filter", <<Item(<<"predicate">>, NameOf(predicate)),
                               Item(<<"data">>, data),
                               Item(<<"", "predicate", "ref">>, predicate)>>)
\* lines 86-99
reduce(positional) ==
    LET func == IF positional.t = "list" THEN positional.items[1] ELSE positional
        data == IF AtLeastTwo(positional) THEN positional.items[2] ELSE None
        initial == IF positional.t = "list" /\ Len(positional.items) > 2
                   THEN positional.items[3] ELSE None
    IN  ActionWith("reduce", <<Item(<<"func">>, NameOf(func)),
                               Item(<<"data">>, data),
                               Item(<<"initial">>, initial),
                               Item(<<"", "func", "ref">>, func)>>)
\* lines 115-121
compose(positional) ==
    LET functions == IF positional.t = "list" THEN positional.items
                     ELSE IF Truthy(positional) THEN <<positional>> ELSE <<>>
        func_names == [n \in 1..Len(functions) |-> NameOf(functions[n])]
    IN  ActionWith("compose", <<Item(<<"functions">>, List(func_names)),
                                Item(<<"", "func", "refs">>, List(functions))>>)
\* lines 137-146
pipe(positional) ==
    LET data == IF AtLeastTwo(positional) THEN positional.items[1] ELSE positional
        functions == IF AtLeastTwo(positional) THEN Tail(positional.items) ELSE <<>>
        func_names == [n \in 1..Len(functions) |-> NameOf(functions[n])]
    IN  ActionWith("pipe", <<Item(<<"data">>, data),
                             Item(<<"functions">>, List(func_names)),
                             Item(<<"", "func", "refs">>, List(functions))>>)

\* the call handler(**args, _context=context) finds a parameter for every
\* name of args: the functional verbs have none but _positional, the
\* other handlers take **kwargs
Accepts(name, args) ==
    name \in FunctionalVerbs
    => \A n \in 1..Len(args) : args[n].key = SyntheticPositionalKey

HandlerBody(name, args, context) ==
    CASE name = "track"     -> Returned(Action("create_track"))
      [] name = "mark"      -> Returned(Tuple(<<Action("mark"),
                                       IF context = None THEN Str("state") ELSE None>>))
      [] name = "noop"      -> Returned(List(<<>>))
      [] name = "burst"     -> Returned(List(<<Action("burst_1"), Action("burst_2")>>))
      [] name = "nothing"   -> Returned(IF context = None THEN None
                                        ELSE Tuple(<<Action("a"), Action("b"), Action("c")>>))
      [] name = "text_pair" -> Returned(Tuple(<<Str("text"), None>>))
      [] name = "mixed"     -> Returned(List(<<Action("mixed_1"), Str("text")>>))
      [] name = "probe"     -> Returned(Action("probe"))
      [] name = "nested"    -> RaisedAs(UnknownVerbError("ghost"))
      [] name = "map"       -> Returned(map(PositionalParameter(args)))
      [] name = "filter"    -> Returned(filter(PositionalParameter(args)))
      [] name = "reduce"    -> Returned(reduce(PositionalParameter(args)))
      [] name = "compose"   -> Returned(compose(PositionalParameter(args)))
      [] name = "pipe"      -> Returned(pipe(PositionalParameter(args)))
      [] OTHER              -> Raised

----------------------------------------------------------------------------
(* Interpreter._coerce_args                                                *)

\* name.startswith("_positional_")
StartsWithPositionalPrefix(key) ==
    Len(key) >= 3 /\ key[1] = "" /\ key[2] = "positional"

\* int(text) on the last piece of a key: [ok, index]
ParseInt(text) ==
    CASE text = "0"  -> [ok |-> TRUE, index |-> 0]
      [] text = "1"  -> [ok |-> TRUE, index |-> 1]
      [] text = "2"  -> [ok |-> TRUE, index |-> 2]
      [] text = "3"  -> [ok |-> TRUE, index |-> 3]
      [] text = "01" -> [ok |-> TRUE, index |-> 1]
      [] text = "-1" -> [ok |-> TRUE, index |-> -1]
      [] OTHER       -> [ok |-> FALSE, index |-> 0]

\* lines 84-90: the (index, value) pairs of the well-formed positional
\* entries.  The order in which line 84 visits the entries cannot be
\* observed (line 93 sorts the pairs again), so they are visited in
\* mapping order.
RECURSIVE CollectPositional(_)
CollectPositional(args) ==
    IF args = <<>> THEN <<>>
    ELSE LET it == Head(args)
             parsed == ParseInt(it.key[Len(it.key)])
         IN  IF StartsWithPositionalPrefix(it.key) /\ parsed.ok
             THEN <<[index |-> parsed.index, value |-> it.val]>>
                  \o CollectPositional(Tail(args))
             ELSE CollectPositional(Tail(args))

\* sorted(positional_args) compares (index, value) tuples: two pairs with
\* the same index and different Values make it compare Value objects,
\* which have no ordering.
Unorderable(pairs) ==
    \E m, n \in 1..Len(pairs) :
        pairs[m].index = pairs[n].index /\ pairs[m].value # pairs[n].value

RECURSIVE InsertByIndex(_, _)
InsertByIndex(sorted, p) ==
    IF sorted = <<>> THEN <<p>>
    ELSE IF p.index < Head(sorted).index THEN <<p>> \o sorted
    ELSE <<Head(sorted)>> \o InsertByIndex(Tail(sorted), p)

\* a reconstruction that keeps the order in which the entries were met
SortByInsertion(pairs) == pairs
RECURSIVE SortByIndex(_)
SortByIndex(pairs) ==
    IF pairs = <<>> THEN <<>>
    ELSE InsertByIndex(SortByIndex(SubSeq(pairs, 1, Len(pairs) - 1)),
                       pairs[Len(pairs)])

\* a coercion that looks every text up in the registry, whatever the kind
\* of the value
CoerceValueByText(value, registry) ==
    IF value.value.t = "str" /\ value.value.v \in DOMAIN registry
    THEN registry[value.value.v]
    ELSE value.value
\* a coercion that hands every function reference on as the raw name
CoerceValueUnresolved(value, registry) == value.value
\* lines 100-105 and 112-119: a function reference becomes the registered
\* handler, or the raw name when there is none; other kinds give their
\* native payload.
CoerceValue(value, registry) ==
    IF value.kind = "function"
    THEN IF value.value.v \in DOMAIN registry
         THEN registry[value.value.v]
         ELSE value.value
    ELSE value.value

\* lines 96-105
RECURSIVE CoerceNamed(_, _, _)
CoerceNamed(args, registry, coerced) ==
    IF args = <<>> THEN coerced
    ELSE LET it == Head(args)
         IN  IF StartsWithPositionalPrefix(it.key)
             THEN CoerceNamed(Tail(args), registry, coerced)
             ELSE CoerceNamed(Tail(args), registry,
                              SetItem(coerced, it.key, CoerceValue(it.val, registry)))

\* _coerce_args(args): [ok, kwargs, error]
CoerceArgs(args, registry) ==
    LET positional_args == CollectPositional(args)
    IN  IF Unorderable(positional_args)
        THEN [ok |-> FALSE, kwargs |-> <<>>, error |-> UnorderableError]
        ELSE
        LET sorted == SortByIndex(positional_args)
            positional_values == [n \in 1..Len(sorted) |-> sorted[n].value]
            named == CoerceNamed(args, registry, <<>>)
            coerced_positionals ==
                [n \in 1..Len(positional_values) |->
                    CoerceValue(positional_values[n], registry)]
            coerced ==
                IF positional_values # <<>>
                THEN IF Len(coerced_positionals) = 1
                     THEN SetItem(named, SyntheticPositionalKey, coerced_positionals[1])
                     ELSE SetItem(named, SyntheticPositionalKey, List(coerced_positionals))
                ELSE named
        IN  [ok |-> TRUE, kwargs |-> coerced, error |-> NoError]

----------------------------------------------------------------------------
(* Interpreter.interpret_stream: the generator.                            *)
(* A generator object is [calls, pc, i, context, result, j]: pc is where   *)
(* its frame is suspended ("start" before the first pull, "yield_single",  *)
(* "yield_pair", "yield_list" at lines 57, 61, 65, "closed" once it has    *)
(* returned or raised), i the number of calls the for loop has taken,      *)
(* result the handler result being delivered, j the number of elements of  *)
(* a list result already yielded.                                          *)

\* line 45: the context is a local of the generator frame, so what an
\* earlier pass left behind does not reach it
InitialContextKept(left_over) == left_over
InitialContext(left_over) == None

\* calling interpret_stream(call_chain) runs nothing of its body
NewGenerator(chain) ==
    [calls |-> chain, pc |-> "start", i |-> 0, context |-> None,
     result |-> None, j |-> 0]

\* One record of a handler invocation: handler(**args, _context=context).
\* left_over is the context the pass before this one ended with.
Invocation(i, verb, args, context, outcome, left_over) ==
    [i |-> i, verb |-> verb, args |-> args, context |-> context,
     outcome |-> outcome, left_over |-> left_over]

\* the branch of lines 56-69 a handler result takes
ResultShape(result) ==
    IF IsAction(result) THEN "single"
    ELSE IF result.t = "tuple" /\ Len(result.items) = 2 THEN "pair"
    ELSE IF result.t = "list" THEN "list"
    ELSE "invalid"

\* line 58
ContextAfterSingleUnset(result) == None
ContextAfterSingle(result) == result
\* lines 60, 62
ContextAfterPairIsAction(result) == result.items[1]
ContextAfterPair(result) == result.items[2]
\* lines 66-67
ContextAfterListReset(result, context) ==
    IF result.items # <<>> THEN result.items[Len(result.items)] ELSE None
ContextAfterList(result, context) ==
    IF result.items # <<>> THEN result.items[Len(result.items)] ELSE context
\* line 64: the for loop over a list result has no element left after j
ExhaustedEarly(result, j) == j + 1 >= Len(result.items)
Exhausted(result, j) == j >= Len(result.items)

\* what one pull gives: the generator afterwards, the invocation log, and
\* kind "yield" (with value), "stop" (StopIteration) or "raise" (with error)
Pulled(g, log, kind, value, error) ==
    [gen |-> g, log |-> log, kind |-> kind, value |-> value, error |-> error]
\* a generator that starts over once it has finished
CloseRestartable(g) == [g EXCEPT !.pc = "start", !.i = 0]
Close(g) == [g EXCEPT !.pc = "closed"]

\* lines 48-49
OnUnknownVerbReturn(g, log, name) == Pulled(Close(g), log, "stop", None, NoError)
OnUnknownVerb(g, log, name) ==
    Pulled(Close(g), log, "raise", None, UnknownVerbError(name))

\* lines 56-69: what the loop does with the result of call n.  Yielding
\* suspends the frame; a raise closes it; an empty list lets the loop go on
\* to the next call, which is "continue" here.
Deliver(g, log, n, name, result) ==
    LET shape == ResultShape(result)
    IN  IF shape = "single"
        THEN Pulled([g EXCEPT !.pc = "yield_single", !.i = n, !.result = result],
                    log, "yield", result, NoError)
        ELSE IF shape = "pair"
        THEN Pulled([g EXCEPT !.pc = "yield_pair", !.i = n, !.result = result],
                    log, "yield", result.items[1], NoError)
        ELSE IF shape = "list"
        THEN IF Exhausted(result, 0)
             THEN Pulled([g EXCEPT !.i = n,
                                   !.context = ContextAfterList(result, g.context)],
                         log, "continue", None, NoError)
             ELSE Pulled([g EXCEPT !.pc = "yield_list", !.i = n,
                                   !.result = result, !.j = 1],
                         log, "yield", result.items[1], NoError)
        ELSE Pulled(Close(g), log, "raise", None, InvalidResultError(name, result))

\* the exception that leaves a handler which raised: line 54 has no
\* try/except, so it reaches the caller of the pass as the handler raised it
Thrown(name, outcome) ==
    IF "error" \in DOMAIN outcome THEN outcome.error ELSE HandlerError(name)

\* the handler has run: its invocation is on record, and it raised or its
\* result is delivered
Called(g, log, n, name, kwargs, left_over, outcome) ==
    IF outcome.raised
    THEN Pulled(Close(g),
                Append(log, Invocation(n, name, kwargs, g.context, outcome, left_over)),
                "raise", None, Thrown(name, outcome))
    ELSE Deliver(g, Append(log, Invocation(n, name, kwargs, g.context, outcome, left_over)),
                 n, name, outcome.ret)

\* a call in which a _context among args takes the place of the context of
\* the loop: handler(**{"_context": context, **args})
InvokeInjects(g, log, n, name, handler, kwargs, left_over) ==
    IF HasKey(kwargs, ContextKey)
    THEN Called([g EXCEPT !.context = Lookup(kwargs, ContextKey)], log, n, name,
                kwargs, left_over,
                HandlerBody(handler.v, kwargs, Lookup(kwargs, ContextKey)))
    ELSE Called(g, log, n, name, kwargs, left_over,
                HandlerBody(handler.v, kwargs, g.context))

\* line 54: result = handler(**args, _context=context)
Invoke(g, log, n, name, handler, kwargs, left_over) ==
    IF HasKey(kwargs, ContextKey)
    THEN Pulled(Close(g), log, "raise", None, DuplicateContextError(name))
    ELSE IF ~Accepts(handler.v, kwargs)
    THEN Pulled(Close(g), log, "raise", None, UnexpectedKeywordError(name))
    ELSE Called(g, log, n, name, kwargs, left_over,
                HandlerBody(handler.v, kwargs, g.context))

\* line 52 done: co is what _coerce_args gave
Coerced(g, log, registry, left_over, n, call, co) ==
    IF ~co.ok
    THEN Pulled(Close(g), log, "raise", None, co.error)
    ELSE Invoke(g, log, n, call.name, registry[call.name], co.kwargs, left_over)

\* a loop that passes over a call whose name is not registered
StepSkipsUnknown(g, log, registry, left_over, n, call) ==
    IF call.name \notin DOMAIN registry
    THEN Pulled([g EXCEPT !.i = n], log, "continue", None, NoError)
    ELSE Coerced(g, log, registry, left_over, n, call,
                 CoerceArgs(call.args, registry))

\* lines 48-54 for call n of the chain
Step(g, log, registry, left_over, n, call) ==
    IF call.name \notin DOMAIN registry
    THEN OnUnknownVerb(g, log, call.name)
    ELSE Coerced(g, log, registry, left_over, n, call,
                 CoerceArgs(call.args, registry))

\* lines 47-69 from the head of the for loop up to the next yield
RECURSIVE RunLoop(_, _, _, _)
\* a loop that, having a value to yield, first runs the handlers of the
\* calls that follow
ContinueAhead(p, registry, left_over) ==
    IF p.kind = "continue" THEN RunLoop(p.gen, p.log, registry, left_over)
    ELSE IF p.kind = "yield"
    THEN [p EXCEPT !.log = RunLoop(p.gen, p.log, registry, left_over).log]
    ELSE p
Continue(p, registry, left_over) ==
    IF p.kind = "continue" THEN RunLoop(p.gen, p.log, registry, left_over) ELSE p

RunLoop(g, log, registry, left_over) ==
    IF g.i >= Len(g.calls)
    THEN Pulled(Close(g), log, "stop", None, NoError)
    ELSE Continue(Step(g, log, registry, left_over, g.i + 1, g.calls[g.i + 1]),
                  registry, left_over)

\* a frame that takes its context from a place shared with other passes
ResumedShared(g, left_over) == [g EXCEPT !.context = left_over]
\* where the frame resumes: the assignment that follows the yield it was
\* suspended at (line 45 at the first pull)
Resumed(g, left_over) ==
    CASE g.pc = "start" -> [g EXCEPT !.context = InitialContext(left_over)]
      [] g.pc = "yield_single" -> [g EXCEPT !.context = ContextAfterSingle(g.result)]
      [] g.pc = "yield_pair" -> [g EXCEPT !.context = ContextAfterPair(g.result)]
      [] g.pc = "yield_list" ->
            [g EXCEPT !.context = ContextAfterList(g.result, g.context)]
      [] OTHER -> g

\* next(generator): resume the frame where it is suspended
Resume(g, log, registry, left_over) ==
    IF g.pc = "closed"
    THEN Pulled(g, log, "stop", None, NoError)
    ELSE IF g.pc = "yield_list" /\ ~Exhausted(g.result, g.j)
    THEN Pulled([g EXCEPT !.j = g.j + 1], log, "yield",
                g.result.items[g.j + 1], NoError)
    ELSE RunLoop(Resumed(g, left_over), log, registry, left_over)

\* generator.close(): GeneratorExit is raised at the yield the frame is
\* suspended at; neither interpret_stream nor Grammar.stream has a try
\* block around its yields, so the frame ends there and runs nothing
GeneratorCloseRunsOn(g, log, registry, left_over) ==
    Resume(g, log, registry, left_over)
GeneratorClose(g, log, registry, left_over) ==
    Pulled(Close(g), log, "stop", None, NoError)

----------------------------------------------------------------------------
(* Interpreter.interpret, Grammar.compile, Grammar.execute                 *)

\* the outcome of a call: it returned value, or raised error
NotRun == [status |-> "not run", value |-> <<>>, error |-> NoError]
Return(value) == [status |-> "returned", value |-> value, error |-> NoError]
Raise(error) == [status |-> "raised", value |-> <<>>, error |-> error]

\* an exception leaving list(...) discards the elements collected so far
OnRaiseKeep(acc, error) == Return(acc)
OnRaise(acc, error) == Raise(error)

\* list(generator): pull until StopIteration.  [outcome, log, gen]
RECURSIVE Drain(_, _, _, _, _)
\* p is what the pull gave
Drained(p, registry, left_over, acc) ==
    IF p.kind = "yield"
    THEN Drain(p.gen, p.log, registry, left_over, Append(acc, p.value))
    ELSE IF p.kind = "stop"
    THEN [outcome |-> Return(acc), log |-> p.log, gen |-> p.gen]
    ELSE [outcome |-> OnRaise(acc, p.error), log |-> p.log, gen |-> p.gen]

Drain(g, log, registry, left_over, acc) ==
    Drained(Resume(g, log, registry, left_over), registry, left_over, acc)

\* Interpreter.interpret(call_chain)
Interpret(chain, registry, left_over) ==
    Drain(NewGenerator(chain), <<>>, registry, left_over, <<>>)

\* A runtime is [rejects]: its execute raises on the actions in rejects.
\* for action in plan: runtime.execute(action) -- [outcome, delivered]
RECURSIVE DispatchFromEnd(_, _, _)
DispatchFromEnd(plan, runtime, delivered) ==
    IF plan = <<>> THEN [outcome |-> Return(<<>>), delivered |-> delivered]
    ELSE IF plan[Len(plan)] \in runtime.rejects
    THEN [outcome |-> Raise(RuntimeFailure),
          delivered |-> Append(delivered, plan[Len(plan)])]
    ELSE DispatchFromEnd(SubSeq(plan, 1, Len(plan) - 1), runtime,
                         Append(delivered, plan[Len(plan)]))

\* a loop that calls the runtime a second time on the action it failed on
RECURSIVE DispatchRetry(_, _, _)
DispatchRetry(plan, runtime, delivered) ==
    IF plan = <<>> THEN [outcome |-> Return(<<>>), delivered |-> delivered]
    ELSE IF Head(plan) \in runtime.rejects
    THEN [outcome |-> Raise(RuntimeFailure),
          delivered |-> delivered \o <<Head(plan), Head(plan)>>]
    ELSE DispatchRetry(Tail(plan), runtime, Append(delivered, Head(plan)))

RECURSIVE Dispatch(_, _, _)
Dispatch(plan, runtime, delivered) ==
    IF plan = <<>> THEN [outcome |-> Return(<<>>), delivered |-> delivered]
    ELSE IF Head(plan) \in runtime.rejects
    THEN [outcome |-> Raise(RuntimeFailure),
          delivered |-> Append(delivered, Head(plan))]
    ELSE Dispatch(Tail(plan), runtime, Append(delivered, Head(plan)))

\* Grammar.execute(code_or_plan, runtime): input is [is_str, chain, plan]
\* (self.runtime is never None, grammar.py line 124, so line 176 cannot
\* raise).  [outcome, log, gen, delivered]
\* lines 180-181 on the plan of a pass with invocations log that ended
\* with context: d is what the dispatch loop gave
Dispatched(d, log, context) ==
    [outcome |-> d.outcome, log |-> log, context |-> context,
     delivered |-> d.delivered]

\* what the handler invocations of log had the generator yield
RECURSIVE YieldedBy(_)
YieldedBy(log) ==
    IF log = <<>> THEN <<>>
    ELSE LET e == log[Len(log)]
             shape == IF e.outcome.raised THEN "invalid"
                      ELSE ResultShape(e.outcome.ret)
         IN  YieldedBy(SubSeq(log, 1, Len(log) - 1))
             \o ( IF shape = "single" THEN <<e.outcome.ret>>
                  ELSE IF shape = "pair" THEN <<e.outcome.ret.items[1]>>
                  ELSE IF shape = "list" THEN e.outcome.ret.items
                  ELSE <<>> )
\* an execute that, when interpretation fails, hands the runtime what was
\* produced up to the failure before it raises
CompiledDeliversPartial(c, runtime) ==
    IF c.outcome.status = "raised"
    THEN [outcome |-> c.outcome, log |-> c.log, context |-> c.gen.context,
          delivered |-> Dispatch(YieldedBy(c.log), runtime, <<>>).delivered]
    ELSE Dispatched(Dispatch(c.outcome.value, runtime, <<>>), c.log, c.gen.context)

\* line 178 on source text: c is what compile gave
Compiled(c, runtime) ==
    IF c.outcome.status = "raised"
    THEN [outcome |-> c.outcome, log |-> c.log, context |-> c.gen.context,
          delivered |-> <<>>]
    ELSE Dispatched(Dispatch(c.outcome.value, runtime, <<>>), c.log, c.gen.context)

\* interpret one, execute one
RECURSIVE Interleave(_, _, _, _, _, _)
Interleaved(p, registry, left_over, runtime, delivered) ==
    IF p.kind = "yield"
    THEN IF p.value \in runtime.rejects
         THEN [outcome |-> Raise(RuntimeFailure), log |-> p.log,
               context |-> p.gen.context,
               delivered |-> Append(delivered, p.value)]
         ELSE Interleave(p.gen, p.log, registry, left_over, runtime,
                         Append(delivered, p.value))
    ELSE [outcome |-> IF p.kind = "stop" THEN Return(<<>>) ELSE Raise(p.error),
          log |-> p.log, context |-> p.gen.context, delivered |-> delivered]

Interleave(g, log, registry, left_over, runtime, delivered) ==
    Interleaved(Resume(g, log, registry, left_over), registry, left_over,
                runtime, delivered)

GrammarExecuteInterleaved(input, runtime, registry, left_over) ==
    IF input.is_str
    THEN Interleave(NewGenerator(input.chain), <<>>, registry, left_over,
                    runtime, <<>>)
    ELSE Dispatched(Dispatch(input.plan, runtime, <<>>), <<>>, left_over)

\* an execute that, whatever it is given, compiles the source text again
GrammarExecuteFromSource(input, runtime, registry, left_over) ==
    Compiled(Interpret(code, registry, left_over), runtime)

GrammarExecute(input, runtime, registry, left_over) ==
    IF input.is_str
    THEN Compiled(Interpret(input.chain, registry, left_over), runtime)
    ELSE Dispatched(Dispatch(input.plan, runtime, <<>>), <<>>, left_over)

----------------------------------------------------------------------------
(* The client: one Grammar object, the source texts it is given and the    *)
(* operations it is asked for.                                             *)

\* the calls a source text is made of
CallPool ==
    { Call("track", <<Item(Key("name"), Value("string", Str("Drums")))>>),
      Call("mark", <<>>),
      Call("noop", <<>>),
      Call("burst", <<Item(PositionalKey("0"), Value("function", Str("track"))),
                      Item(PositionalKey("1"), Value("number", Number("2")))>>),
      Call("nothing", <<>>),
      Call("text_pair", <<>>),
      Call("mixed", <<Item(PositionalKey("0"), Value("identifier", Str("data")))>>),
      Call("boom", <<>>),
      Call("foo", <<Item(Key("x"), Value("number", Number("1")))>>),
      Call("track", <<Item(ContextKey, Value("string", Str("injected")))>>) }

RECURSIVE ChainsOfLength(_)
ChainsOfLength(n) ==
    IF n = 0 THEN { <<>> }
    ELSE { Append(c, x) : c \in ChainsOfLength(n - 1), x \in CallPool }

Chains == UNION { ChainsOfLength(n) : n \in 0..MaxCalls }

\* the runtimes execute may be given
Runtimes ==
    { [rejects |-> {}],
      [rejects |-> {Action("burst_2"), Action("mark")}] }

\* the pre-built plans execute may be given
Plans ==
    { <<Action("create_track")>>,
      <<Action("mark"), Action("create_track"), Action("mark")>> }

NoGenerator == [NewGenerator(<<>>) EXCEPT !.pc = "none"]
\* the caller's list after a loop that takes each action off its front
PlanAfterPopLoop(plan) == <<>>
\* the caller's list after lines 180-181: "for action in plan" reads the
\* list through an iterator and stores nothing into it
PlanAfterLoop(plan) == plan
\* what is known of the latest execute: its outcome, whether it was given
\* source text or a plan, and the runtime it was given
Executed(outcome, input, runtime) ==
    [status |-> outcome.status, value |-> outcome.value, error |-> outcome.error,
     is_str |-> input.is_str, plan |-> input.plan,
     plan_after |-> PlanAfterLoop(input.plan), runtime |-> runtime]
NotExecuted ==
    [status |-> "not run", value |-> <<>>, error |-> NoError,
     is_str |-> FALSE, plan |-> <<>>, plan_after |-> <<>>,
     runtime |-> [rejects |-> {}]]
Open(value) == [status |-> "open", value |-> value, error |-> NoError]

\* Interpreter._verb_handlers after a pass that made the invocations of
\* log, had the registry popped the handler it dispatched to
RegistryAfterPop(registry, log) ==
    [name \in DOMAIN registry \ { log[n].verb : n \in 1..Len(log) }
        |-> registry[name]]
\* Interpreter._verb_handlers after a pass that made the invocations of
\* log: the pass tests membership (line 48), subscripts (lines 51, 115) and
\* calls get (line 103), none of which stores into the dict
RegistryAfter(registry, log) == registry

\* What one operation on the generator of the stream did: op is "next" or
\* "close", ended whether the generator had finished before it, kind what
\* it gave, invoked the number of handlers it ran, added the number of
\* values it handed to the consumer.
OpGave(op, p) ==
    [op |-> op, ended |-> gen.pc = "closed", kind |-> p.kind,
     invoked |-> Len(p.log) - Len(stream_calls),
     added |-> IF p.kind = "yield" THEN 1 ELSE 0]
NoOp == [op |-> "none", ended |-> FALSE, kind |-> "", invoked |-> 0, added |-> 0]

Init ==
    /\ verb_handlers = CollectVerbs(DslMembers)
    /\ code \in Chains
    /\ gen = NoGenerator
    /\ streamed = NotRun
    /\ stream_calls = <<>>
    /\ compiled = NotRun
    /\ compile_calls = <<>>
    /\ executed = NotExecuted
    /\ execute_calls = <<>>
    /\ runtime_actions = <<>>
    /\ prev_context = None
    /\ last_op = NoOp
    /\ passes = <<>>

\* what the client sees of a compile that gave c
CompileGave(c) ==
    /\ compiled' = c.outcome
    /\ compile_calls' = c.log
    /\ prev_context' = c.gen.context
    /\ verb_handlers' = RegistryAfter(verb_handlers, c.log)

\* actions = grammar.compile(code)
Compile ==
    /\ compiled = NotRun
    /\ CompileGave(Interpret(code, verb_handlers, prev_context))
    /\ UNCHANGED <<code, gen, streamed, stream_calls, executed,
                   execute_calls, runtime_actions, last_op, passes>>

\* stream = grammar.stream(code)
Stream ==
    /\ gen' = NewGenerator(code)
    /\ streamed' = Open(<<>>)
    /\ stream_calls' = <<>>
    /\ executed' = NotExecuted
    /\ execute_calls' = <<>>
    /\ runtime_actions' = <<>>
    /\ last_op' = NoOp
    /\ UNCHANGED <<verb_handlers, code, compiled, compile_calls, prev_context,
                   passes>>

\* what the consumer sees of a pull that gave p
PullGave(p) ==
    /\ gen' = p.gen
    /\ stream_calls' = p.log
    /\ streamed' =
          IF gen.pc = "closed" THEN streamed
          ELSE IF p.kind = "yield" THEN Open(Append(streamed.value, p.value))
          ELSE IF p.kind = "stop"
          THEN [Return(streamed.value) EXCEPT !.status = "exhausted"]
          ELSE [Raise(p.error) EXCEPT !.value = streamed.value]
    /\ prev_context' =
          IF gen.pc # "closed" /\ p.kind # "yield"
          THEN p.gen.context ELSE prev_context
    /\ last_op' = OpGave("next", p)
    /\ verb_handlers' = RegistryAfter(verb_handlers, p.log)

\* next(stream) on a stream that has not ended
Pull ==
    /\ gen.pc \notin {"none", "closed"}
    /\ PullGave(Resume(gen, stream_calls, verb_handlers, prev_context))
    /\ UNCHANGED <<code, compiled, compile_calls, executed,
                   execute_calls, runtime_actions, passes>>

\* next(stream) on a stream that was exhausted, has failed or was closed
PullEnded ==
    /\ gen.pc = "closed"
    /\ PullGave(Resume(gen, stream_calls, verb_handlers, prev_context))
    /\ UNCHANGED <<code, compiled, compile_calls, executed,
                   execute_calls, runtime_actions, passes>>

\* what the consumer sees of a close that gave p
CloseGave(p) ==
    /\ gen' = p.gen
    /\ stream_calls' = p.log
    /\ streamed' =
          [streamed EXCEPT !.status = "abandoned",
                           !.value = IF p.kind = "yield" THEN Append(@, p.value) ELSE @]
    /\ prev_context' = p.gen.context
    /\ last_op' = OpGave("close", p)
    /\ verb_handlers' = RegistryAfter(verb_handlers, p.log)

\* the consumer drops a stream it has not drained: stream.close(), which
\* is also what discarding the last reference to the generator does
Abandon ==
    /\ gen.pc # "none"
    /\ streamed.status = "open"
    /\ CloseGave(GeneratorClose(gen, stream_calls, verb_handlers, prev_context))
    /\ UNCHANGED <<code, compiled, compile_calls, executed,
                   execute_calls, runtime_actions, passes>>

\* what the client and the runtime see of an execute that gave e
ExecuteGave(e, input, runtime) ==
    /\ executed' = Executed(e.outcome, input, runtime)
    /\ execute_calls' = e.log
    /\ runtime_actions' = e.delivered
    /\ prev_context' = e.context
    /\ verb_handlers' = RegistryAfter(verb_handlers, e.log)

\* grammar.execute(code_or_plan, runtime)
Execute(input, runtime) ==
    /\ ExecuteGave(GrammarExecute(input, runtime, verb_handlers, prev_context),
                   input, runtime)
    /\ gen' = NoGenerator
    /\ streamed' = NotRun
    /\ stream_calls' = <<>>
    /\ last_op' = NoOp
    /\ UNCHANGED <<code, compiled, compile_calls, passes>>

SourceInput(chain) == [is_str |-> TRUE, chain |-> chain, plan |-> <<>>]
PlanInput(plan) == [is_str |-> FALSE, chain |-> <<>>, plan |-> plan]

ExecuteSource == \E runtime \in Runtimes : Execute(SourceInput(code), runtime)
ExecutePlan == \E plan \in Plans, runtime \in Runtimes : Execute(PlanInput(plan), runtime)

Next ==
    \/ Compile
    \/ Stream
    \/ Pull
    \/ ExecuteSource
    \/ ExecutePlan

Spec == Init /\ [][Next]_vars

\* The calls of a source text whose passes fail in each way a pass can: an
\* unregistered name, a handler result outside the contract, a handler that
\* raises an exception of its own, and a handler whose inner pass fails.
ErrorPool ==
    { Call("track", <<Item(Key("name"), Value("string", Str("Drums")))>>),
      Call("foo", <<Item(Key("x"), Value("number", Number("1")))>>),
      Call("nothing", <<>>),
      Call("boom", <<>>),
      Call("nested", <<>>) }

RECURSIVE ErrorChainsOfLength(_)
ErrorChainsOfLength(n) ==
    IF n = 0 THEN { <<>> }
    ELSE { Append(c, x) : c \in ErrorChainsOfLength(n - 1), x \in ErrorPool }

ErrorChains == UNION { ErrorChainsOfLength(n) : n \in 0..MaxCalls }

InitErrors ==
    /\ verb_handlers = CollectVerbs(DslMembers)
    /\ code \in ErrorChains
    /\ gen = NoGenerator
    /\ streamed = NotRun
    /\ stream_calls = <<>>
    /\ compiled = NotRun
    /\ compile_calls = <<>>
    /\ executed = NotExecuted
    /\ execute_calls = <<>>
    /\ runtime_actions = <<>>
    /\ prev_context = None
    /\ last_op = NoOp
    /\ passes = <<>>

SpecErrors == InitErrors /\ [][Next]_vars

\* The argument entries a call to probe is made of: named and positional
\* function references to a registered and to an unregistered name, plain
\* values, two keys with the index 1 ("1" and "01"), keys with the
\* positional prefix whose remainder is no integer ("x", "x_1"), a named
\* argument called _positional, and a string and an identifier whose text
\* is the name of a registered verb.
ArgPool ==
    { Item(Key("func"), Value("function", Str("track"))),
      Item(Key("other"), Value("function", Str("unknown"))),
      Item(PositionalKey("0"), Value("function", Str("track"))),
      Item(PositionalKey("1"), Value("function", Str("unknown"))),
      Item(PositionalKey("2"), Value("number", Number("2"))),
      Item(PositionalKey("01"), Value("number", Number("7"))),
      Item(PositionalKey("x"), Value("string", Str("dropped"))),
      Item(<<"", "positional", "x", "1">>, Value("identifier", Str("data"))),
      Item(SyntheticPositionalKey, Value("number", Number("9"))),
      Item(Key("label"), Value("string", Str("track"))),
      Item(PositionalKey("2"), Value("identifier", Str("track"))) }

\* the sequences of n entries of the pool
RECURSIVE MappingsOfSize(_)
MappingsOfSize(n) ==
    IF n = 0 THEN { <<>> }
    ELSE { Append(m, it) : m \in MappingsOfSize(n - 1), it \in ArgPool }

\* a mapping has every key once; its entries come in insertion order
ArgMappings ==
    { m \in UNION { MappingsOfSize(n) : n \in 0..MaxArgs } :
        \A a, b \in 1..Len(m) : a # b => m[a].key # m[b].key }

\* a source text of one call to probe
InitCoerce ==
    /\ verb_handlers = CollectVerbs(DslMembers)
    /\ code \in { <<Call("probe", m)>> : m \in ArgMappings }
    /\ gen = NoGenerator
    /\ streamed = NotRun
    /\ stream_calls = <<>>
    /\ compiled = NotRun
    /\ compile_calls = <<>>
    /\ executed = NotExecuted
    /\ execute_calls = <<>>
    /\ runtime_actions = <<>>
    /\ prev_context = None
    /\ last_op = NoOp
    /\ passes = <<>>

NextCoerce ==
    \/ Compile
    \/ Stream
    \/ Pull

SpecCoerce == InitCoerce /\ [][NextCoerce]_vars

\* Source texts of one call to a verb of FunctionalMixin, as the parser
\* builds them: the positional arguments under _positional_0,
\* _positional_1, ... in the order written (backend_lark.py 81-92), then
\* at most one named argument.
FunctionalValues ==
    { Value("function", Str("track")),
      Value("function", Str("unknown")),
      Value("identifier", Str("data")),
      Value("number", Number("0")) }

\* str(positional_index)
IndexText(i) == CASE i = 0 -> "0" [] i = 1 -> "1" [] i = 2 -> "2" [] OTHER -> "3"

RECURSIVE PositionalsOfLength(_)
PositionalsOfLength(n) ==
    IF n = 0 THEN { <<>> }
    ELSE { Append(m, Item(PositionalKey(IndexText(n - 1)), v)) :
              m \in PositionalsOfLength(n - 1), v \in FunctionalValues }

FunctionalArgs ==
    LET positionals == UNION { PositionalsOfLength(n) : n \in 0..MaxArgs }
    IN  positionals
        \cup { Append(m, Item(Key("data"), Value("identifier", Str("data")))) :
                  m \in positionals }

InitFunctional ==
    /\ verb_handlers = CollectVerbs(DslMembers)
    /\ code \in { <<Call(name, m)>> : name \in FunctionalVerbs, m \in FunctionalArgs }
    /\ gen = NoGenerator
    /\ streamed = NotRun
    /\ stream_calls = <<>>
    /\ compiled = NotRun
    /\ compile_calls = <<>>
    /\ executed = NotExecuted
    /\ execute_calls = <<>>
    /\ runtime_actions = <<>>
    /\ prev_context = None
    /\ last_op = NoOp
    /\ passes = <<>>

SpecFunctional == InitFunctional /\ [][NextCoerce]_vars

\* Two streaming passes over the one Interpreter, open together and pulled
\* in any interleaving.  A pass is [gen, calls, got]: its generator, the
\* handler invocations it made and the values its consumer received.
NewPass(chain) == [gen |-> NewGenerator(chain), calls |-> <<>>, got |-> <<>>]

PassPool ==
    { Call("track", <<Item(Key("name"), Value("string", Str("Drums")))>>),
      Call("mark", <<>>),
      Call("noop", <<>>),
      Call("burst", <<Item(PositionalKey("0"), Value("function", Str("track"))),
                      Item(PositionalKey("1"), Value("number", Number("2")))>>) }

RECURSIVE PassChainsOfLength(_)
PassChainsOfLength(n) ==
    IF n = 0 THEN { <<>> }
    ELSE { Append(c, x) : c \in PassChainsOfLength(n - 1), x \in PassPool }

PassChains == UNION { PassChainsOfLength(n) : n \in 1..MaxPassCalls }

InitPasses ==
    /\ verb_handlers = CollectVerbs(DslMembers)
    /\ code = <<>>
    /\ gen = NoGenerator
    /\ streamed = NotRun
    /\ stream_calls = <<>>
    /\ compiled = NotRun
    /\ compile_calls = <<>>
    /\ executed = NotExecuted
    /\ execute_calls = <<>>
    /\ runtime_actions = <<>>
    /\ prev_context = None
    /\ last_op = NoOp
    /\ passes \in { <<NewPass(a), NewPass(b)>> : a, b \in PassChains }

\* what pass p is after a pull that gave r
PassGave(p, r) ==
    /\ passes' = [passes EXCEPT ![p] =
                  [gen |-> r.gen, calls |-> r.log,
                   got |-> IF r.kind = "yield" THEN Append(@.got, r.value) ELSE @.got]]
    /\ verb_handlers' = RegistryAfter(verb_handlers, r.log)

\* next() on pass p; the context the other pass holds is what is left over
\* from outside the pass
PullPass(p) ==
    /\ passes[p].gen.pc # "closed"
    /\ PassGave(p, Resume(passes[p].gen, passes[p].calls, verb_handlers,
                          passes[3 - p].gen.context))
    /\ UNCHANGED <<code, gen, streamed, stream_calls, compiled,
                   compile_calls, executed, execute_calls, runtime_actions,
                   prev_context, last_op>>

NextPasses == \E p \in 1..2 : PullPass(p)

SpecPasses == InitPasses /\ [][NextPasses]_vars

\* The consumer of one stream: it pulls, may go on pulling after the end,
\* may drop the stream, and may open a new one.
NextStream ==
    \/ Stream
    \/ Pull
    \/ PullEnded
    \/ Abandon

SpecStream == Init /\ [][NextStream]_vars

\* A consumer that drains one stream: it opens the stream once and then
\* pulls, as `for action in grammar.stream(code)` and list(...) do, until
\* the generator ends.  The loop of the consumer goes on while the stream
\* has not ended, hence weak fairness of both of its steps.
OpenStream ==
    /\ gen.pc = "none"
    /\ Stream

NextDrain ==
    \/ OpenStream
    \/ Pull

\* Weak fairness of Pull, with ENABLED <<Pull>>_vars written out: a pull
\* is possible, and changes gen, exactly when the stream is open and its
\* generator has not ended.
PullFairness ==
    []<>(gen.pc \in {"none", "closed"}) \/ []<><<Pull>>_vars

SpecDrain ==
    Init /\ [][NextDrain]_vars /\ WF_vars(OpenStream) /\ PullFairness

----------------------------------------------------------------------------
(* Vocabulary of the properties                                            *)

\* the three result shapes the handler contract allows
ValidResult(r) ==
    \/ IsAction(r)
    \/ r.t = "tuple" /\ Len(r.items) = 2 /\ IsAction(r.items[1])
    \/ r.t = "list" /\ \A n \in 1..Len(r.items) : IsAction(r.items[n])

\* what a result adds to the output: the action of a single Action or of
\* a pair, the elements of a list, nothing otherwise
ActionsOf(r) ==
    IF IsAction(r) THEN <<r>>
    ELSE IF r.t = "tuple" /\ Len(r.items) = 2 THEN <<r.items[1]>>
    ELSE IF r.t = "list" THEN r.items
    ELSE <<>>

\* an invocation whose handler returned a valid result
ReturnedValid(e) == ~e.outcome.raised /\ ValidResult(e.outcome.ret)

\* the actions of the invocations log[1..n], concatenated in log order
RECURSIVE Concatenated(_, _)
Concatenated(log, n) ==
    IF n = 0 THEN <<>>
    ELSE Concatenated(log, n - 1) \o ActionsOf(log[n].outcome.ret)

\* the invocations are those of calls 1..Len(log) of the chain, in order
InChainOrder(log, chain) ==
    /\ Len(log) <= Len(chain)
    /\ \A n \in 1..Len(log) : log[n].i = n /\ log[n].verb = chain[n].name

AllRegistered(chain) ==
    \A n \in 1..Len(chain) : chain[n].name \in DOMAIN verb_handlers

\* the part of the output out that falls to invocation n of log
YieldedFor(log, out, n) ==
    SubSeq(out, Len(Concatenated(log, n - 1)) + 1,
           IF n < Len(log) THEN Len(Concatenated(log, n)) ELSE Len(out))

IsPrefix(a, b) == Len(a) <= Len(b) /\ a = SubSeq(b, 1, Len(a))

\* the first call of the chain whose name is not registered
HasUnknown(chain) ==
    \E n \in 1..Len(chain) : chain[n].name \notin DOMAIN verb_handlers
FirstUnknown(chain) ==
    CHOOSE k \in 1..Len(chain) :
        /\ chain[k].name \notin DOMAIN verb_handlers
        /\ \A j \in 1..(k - 1) : chain[j].name \in DOMAIN verb_handlers

\* the arguments of the call can be handed to a handler
Binds(call) ==
    LET co == CoerceArgs(call.args, verb_handlers)
    IN  co.ok /\ ~HasKey(co.kwargs, ContextKey)

\* calls 1..k-1 of the chain complete: their arguments bind and every
\* handler invoked returned a result the interpreter took
PrefixCompletes(chain, log, k) ==
    /\ \A j \in 1..(k - 1) : Binds(chain[j])
    /\ \A n \in 1..Len(log) :
          ~log[n].outcome.raised /\ ResultShape(log[n].outcome.ret) # "invalid"

\* the invocation logs of the three kinds of pass
Logs == {stream_calls, compile_calls, execute_calls}

StreamDrained == streamed.status \in {"exhausted", "raised"}

----------------------------------------------------------------------------
(* C1: when every verb of the chain is registered and every handler can   *)
(* be called and returns a valid result, interpret returns the             *)
(* concatenation, in call order, of the actions the handlers returned, and *)
(* has invoked the handler of every call exactly once, in chain order.     *)
C1_InterpretIsConcatenation ==
    ( /\ compiled.status # "not run"
      /\ AllRegistered(code)
      /\ \A n \in 1..Len(code) : Binds(code[n])
      /\ \A n \in 1..Len(compile_calls) : ReturnedValid(compile_calls[n]) )
    => /\ compiled.status = "returned"
       /\ Len(compile_calls) = Len(code)
       /\ InChainOrder(compile_calls, code)
       /\ compiled.value = Concatenated(compile_calls, Len(compile_calls))

C1_Witness ==
    /\ Len(code) = 3
    /\ code[1].name = "burst" /\ code[2].name = "mark" /\ code[3].name = "track"
    /\ compiled.status = "returned"
    /\ compiled.value = <<Action("burst_1"), Action("burst_2"), Action("mark"),
                          Action("create_track")>>
    /\ Len(compile_calls) = 3

(* C2: the eager form returns what fully draining the streaming form on    *)
(* the same source yields, and fails with the same error exactly when the  *)
(* drained stream fails.                                                   *)
C2_EagerEqualsDrainedStream ==
    (compiled.status # "not run" /\ StreamDrained)
    => /\ compiled.status = "returned" <=> streamed.status = "exhausted"
       /\ compiled.status = "returned" => compiled.value = streamed.value
       /\ compiled.status = "raised" => compiled.error = streamed.error

C2_Witness ==
    /\ compiled.status = "returned" /\ streamed.status = "exhausted"
    /\ Len(streamed.value) >= 3

C2_WitnessFailure ==
    /\ compiled.status = "raised" /\ streamed.status = "raised"
    /\ Len(streamed.value) >= 2

(* C3: when the handler of call i returns a single Action A, the handler   *)
(* of call i+1 is invoked with A as its context.                           *)
C3_SingleActionBecomesContext ==
    \A log \in Logs : \A m, n \in 1..Len(log) :
        ( /\ log[n].i = log[m].i + 1
          /\ ~log[m].outcome.raised
          /\ IsAction(log[m].outcome.ret) )
        => log[n].context = log[m].outcome.ret

C3_Witness ==
    /\ Len(stream_calls) = 2
    /\ stream_calls[1].verb = "track" /\ stream_calls[2].verb = "mark"
    /\ stream_calls[1].outcome.ret = Action("create_track")
    /\ stream_calls[2].context = Action("create_track")

(* C4 as claimed: in the streaming form, when call k is the first call     *)
(* with an unregistered name, the consumer receives the actions of the     *)
(* calls before k and then the unknown-verb error, and no handler is       *)
(* invoked for call k or a later call.                                     *)
C4_UnknownVerbAfterPrefix ==
    (HasUnknown(code) /\ StreamDrained)
    => LET k == FirstUnknown(code)
       IN  /\ streamed.status = "raised"
           /\ streamed.error = UnknownVerbError(code[k].name)
           /\ Len(stream_calls) = k - 1
           /\ InChainOrder(stream_calls, code)
           /\ streamed.value = Concatenated(stream_calls, k - 1)

(* C4 amended: a drained stream over a chain whose first unregistered call *)
(* is k has failed, keeps what it yielded, and has invoked no handler for  *)
(* call k or later; when the calls before k all complete, it yielded their *)
(* output and failed with the unknown-verb error for call k.               *)
C4_UnknownVerbAfterCompletedPrefix ==
    (HasUnknown(code) /\ StreamDrained)
    => LET k == FirstUnknown(code)
       IN  /\ streamed.status = "raised"
           /\ Len(stream_calls) <= k - 1
           /\ InChainOrder(stream_calls, code)
           /\ streamed.value = Concatenated(stream_calls, Len(stream_calls))
           /\ PrefixCompletes(code, stream_calls, k)
              => /\ streamed.error = UnknownVerbError(code[k].name)
                 /\ Len(stream_calls) = k - 1

C4_Witness ==
    /\ Len(code) = 3
    /\ code[1].name = "burst" /\ code[2].name = "foo" /\ code[3].name = "track"
    /\ streamed.status = "raised"
    /\ streamed.error = UnknownVerbError("foo")
    /\ streamed.value = <<Action("burst_1"), Action("burst_2")>>
    /\ Len(stream_calls) = 1

(* C5 as claimed: execute on a source text whose chain has an unregistered *)
(* verb raises the unknown-verb error and never calls the runtime.         *)
C5_ExecuteUnknownVerb ==
    (executed.status # "not run" /\ executed.is_str /\ HasUnknown(code))
    => /\ executed.status = "raised"
       /\ executed.error = UnknownVerbError(code[FirstUnknown(code)].name)
       /\ runtime_actions = <<>>

(* C5 amended: execute on such a source text raises and never calls the    *)
(* runtime; the error is the unknown-verb error when the calls before the  *)
(* first unregistered one all complete.                                    *)
C5_ExecuteUnknownVerbNoRuntimeCall ==
    (executed.status # "not run" /\ executed.is_str /\ HasUnknown(code))
    => LET k == FirstUnknown(code)
       IN  /\ executed.status = "raised"
           /\ runtime_actions = <<>>
           /\ PrefixCompletes(code, execute_calls, k)
              => executed.error = UnknownVerbError(code[k].name)

C5_Witness ==
    /\ Len(code) = 2
    /\ code[1].name = "track" /\ code[2].name = "foo"
    /\ executed.is_str
    /\ executed.status = "raised"
    /\ executed.error = UnknownVerbError("foo")
    /\ Len(execute_calls) = 1
    /\ runtime_actions = <<>>

(* C6: a handler result outside the three allowed shapes makes the pass    *)
(* fail with the invalid-handler-result error naming the verb and carrying *)
(* the result, and nothing is yielded for that call.                       *)
C6_InvalidResultRejected ==
    \A n \in 1..Len(stream_calls) :
        LET e == stream_calls[n]
        IN  (~e.outcome.raised /\ ~ValidResult(e.outcome.ret))
            => /\ streamed.status = "raised"
               /\ streamed.error = InvalidResultError(e.verb, e.outcome.ret)
               /\ streamed.value = Concatenated(stream_calls, n - 1)

(* C7: for a handler result (Action A, context C) exactly A is yielded for *)
(* that call and the next handler is invoked with C as its context, also   *)
(* when C is None.                                                         *)
IsValidPair(e) ==
    /\ ~e.outcome.raised
    /\ e.outcome.ret.t = "tuple" /\ Len(e.outcome.ret.items) = 2
    /\ IsAction(e.outcome.ret.items[1])

C7_PairYieldsActionAdoptsContext ==
    /\ \A log \in Logs : \A m, n \in 1..Len(log) :
          (log[n].i = log[m].i + 1 /\ IsValidPair(log[m]))
          => log[n].context = log[m].outcome.ret.items[2]
    /\ \A n \in 1..Len(stream_calls) :
          IsValidPair(stream_calls[n])
          => YieldedFor(stream_calls, streamed.value, n)
                = <<stream_calls[n].outcome.ret.items[1]>>
    /\ compiled.status = "returned"
       => \A n \in 1..Len(compile_calls) :
              IsValidPair(compile_calls[n])
              => YieldedFor(compile_calls, compiled.value, n)
                    = <<compile_calls[n].outcome.ret.items[1]>>

C7_Witness ==
    /\ Len(stream_calls) = 3
    /\ stream_calls[1].verb = "mark" /\ stream_calls[2].verb = "mark"
    /\ stream_calls[1].outcome.ret = Tuple(<<Action("mark"), Str("state")>>)
    /\ stream_calls[2].context = Str("state")
    /\ stream_calls[2].outcome.ret = Tuple(<<Action("mark"), None>>)
    /\ stream_calls[3].context = None
    /\ SubSeq(streamed.value, 1, 2) = <<Action("mark"), Action("mark")>>

(* C8: for a handler result [A1..An] of Actions, every Ai is yielded in    *)
(* order and the next handler is invoked with An as its context; for the   *)
(* empty list nothing is yielded and the next handler is invoked with the  *)
(* context the current handler was invoked with.                           *)
IsValidList(e) ==
    /\ ~e.outcome.raised
    /\ e.outcome.ret.t = "list"
    /\ \A n \in 1..Len(e.outcome.ret.items) : IsAction(e.outcome.ret.items[n])

C8_ListYieldsAllAdoptsLast ==
    /\ \A log \in Logs : \A m, n \in 1..Len(log) :
          (log[n].i = log[m].i + 1 /\ IsValidList(log[m]))
          => LET items == log[m].outcome.ret.items
             IN  log[n].context =
                    IF items # <<>> THEN items[Len(items)] ELSE log[m].context
    /\ \A n \in 1..Len(stream_calls) :
          IsValidList(stream_calls[n])
          => LET items == stream_calls[n].outcome.ret.items
                 got == YieldedFor(stream_calls, streamed.value, n)
             IN  /\ IsPrefix(got, items)
                 /\ (n < Len(stream_calls) \/ StreamDrained) => got = items
    /\ compiled.status = "returned"
       => \A n \in 1..Len(compile_calls) :
              IsValidList(compile_calls[n])
              => YieldedFor(compile_calls, compiled.value, n)
                    = compile_calls[n].outcome.ret.items

C8_Witness ==
    /\ Len(stream_calls) = 3
    /\ stream_calls[1].verb = "burst" /\ stream_calls[2].verb = "noop"
    /\ stream_calls[3].verb = "track"
    /\ stream_calls[2].context = Action("burst_2")
    /\ stream_calls[2].outcome.ret = List(<<>>)
    /\ stream_calls[3].context = Action("burst_2")
    /\ streamed.value = <<Action("burst_1"), Action("burst_2"), Action("create_track")>>

(* C9: in every pass the handler of the first call is invoked with the     *)
(* None context, whatever context an earlier pass ended with.              *)
C9_FirstCallGetsNoContext ==
    \A log \in Logs : \A n \in 1..Len(log) :
        log[n].i = 1 => log[n].context = None

C9_Witness ==
    /\ Len(stream_calls) >= 1
    /\ stream_calls[1].i = 1
    /\ stream_calls[1].left_over = Action("create_track")
    /\ stream_calls[1].context = None

(* C10: execute on a source text with a runtime that never fails calls the *)
(* runtime once per produced action, in the produced order: the runtime    *)
(* receives compile(source).                                               *)
C10_RuntimeReceivesCompiledPlan ==
    ( /\ executed.status # "not run" /\ executed.is_str
      /\ executed.runtime.rejects = {}
      /\ compiled.status # "not run" )
    => /\ compiled.status = "returned"
          => /\ executed.status = "returned"
             /\ runtime_actions = compiled.value
             /\ runtime_actions = Concatenated(execute_calls, Len(execute_calls))
             /\ InChainOrder(execute_calls, code)
       /\ compiled.status = "raised"
          => /\ executed.status = "raised"
             /\ executed.error = compiled.error
             /\ runtime_actions = <<>>

C10_Witness ==
    /\ executed.is_str /\ executed.runtime.rejects = {}
    /\ executed.status = "returned"
    /\ compiled.status = "returned"
    /\ Len(code) = 3
    /\ runtime_actions = <<Action("create_track"), Action("burst_1"),
                           Action("burst_2"), Action("mark")>>

----------------------------------------------------------------------------
\* the runtime fails on some action of the plan
RejectsSome(plan, runtime) == \E j \in 1..Len(plan) : plan[j] \in runtime.rejects
\* the first action of the plan the runtime fails on
FirstRejected(plan, runtime) ==
    CHOOSE j \in 1..Len(plan) :
        /\ plan[j] \in runtime.rejects
        /\ \A m \in 1..(j - 1) : plan[m] \notin runtime.rejects

\* execute was run on a plan: the one it was given, or the one compile
\* returns for the source text it was given
ExecutedPlan ==
    /\ executed.status # "not run"
    /\ executed.is_str => compiled.status = "returned"
ThePlan == IF executed.is_str THEN compiled.value ELSE executed.plan

(* C11: when the runtime fails on the j-th action of the plan, execute      *)
(* raises that failure, and the runtime was called exactly on actions 1..j  *)
(* of the plan, once each and in order: no retry, no call on a later        *)
(* action, no compensating call.                                            *)
C11_RuntimeFailurePropagates ==
    (ExecutedPlan /\ RejectsSome(ThePlan, executed.runtime))
    => /\ executed.status = "raised"
       /\ executed.error = RuntimeFailure
       /\ runtime_actions = SubSeq(ThePlan, 1, FirstRejected(ThePlan, executed.runtime))

C11_Witness ==
    /\ executed.is_str /\ compiled.status = "returned"
    /\ compiled.value = <<Action("create_track"), Action("burst_1"),
                          Action("burst_2"), Action("create_track")>>
    /\ executed.status = "raised" /\ executed.error = RuntimeFailure
    /\ runtime_actions = <<Action("create_track"), Action("burst_1"), Action("burst_2")>>

----------------------------------------------------------------------------
(* Vocabulary of the properties of argument coercion                       *)

\* a key with the reserved prefix _positional_
ReservedPrefix(key) == Len(key) >= 3 /\ key[1] = "" /\ key[2] = "positional"
\* a key _positional_<i> with an integer i
WellFormedPositional(key) ==
    ReservedPrefix(key) /\ Len(key) = 3 /\ ParseInt(key[3]).ok
\* a key with the reserved prefix whose remainder is no integer
MalformedPositional(key) == ReservedPrefix(key) /\ ~WellFormedPositional(key)
\* a key with the reserved prefix that ends in _<i> with an integer i
EndsInIndex(key) == ReservedPrefix(key) /\ ParseInt(key[Len(key)]).ok
\* the index at the end of a key
IndexOf(key) == ParseInt(key[Len(key)]).index

\* the positional entries of a mapping, and its entries that end in an index
Positionals(args) == { n \in 1..Len(args) : WellFormedPositional(args[n].key) }
IndexEnded(args) == { n \in 1..Len(args) : EndsInIndex(args[n].key) }
\* the entries S of a mapping have pairwise distinct indices
DistinctIndices(args, S) ==
    \A a, b \in S : a # b => IndexOf(args[a].key) # IndexOf(args[b].key)
\* the place of entry n among the entries S put in index order
Rank(args, S, n) ==
    Cardinality({ m \in S : IndexOf(args[m].key) < IndexOf(args[n].key) }) + 1

\* what a handler is to get for a value: the bound handler of a registered
\* function reference, the name of an unregistered one, the payload of any
\* other value
Resolved(val) ==
    IF val.kind = "function"
    THEN IF val.value.v \in DOMAIN verb_handlers
         THEN BoundHandler(val.value.v)
         ELSE Str(val.value.v)
    ELSE val.value

\* the values of the entries S of a mapping in ascending index order
Ascending(args, S) ==
    [r \in 1..Cardinality(S) |->
        Resolved(args[CHOOSE n \in S : Rank(args, S, n) = r].val)]

\* the positional values a handler got, as a sequence
ReceivedPositionals(kwargs) ==
    IF ~HasKey(kwargs, SyntheticPositionalKey) THEN <<>>
    ELSE LET x == Lookup(kwargs, SyntheticPositionalKey)
         IN  IF x.t = "list" THEN x.items ELSE <<x>>

(* C12: every function reference that coercion takes as a named or as a    *)
(* positional argument reaches the handler as the bound handler registered *)
(* under the referenced name, or as the raw name when none is registered;  *)
(* a call never fails because a reference is unresolved: the one failure   *)
(* of coercion is two entries ending in the same index.                    *)
C12_FunctionReferencesResolved ==
    /\ compiled.status = "raised"
       => ~DistinctIndices(code[1].args, IndexEnded(code[1].args))
    /\ \A n \in 1..Len(compile_calls) :
          LET e == compile_calls[n]
              args == code[e.i].args
              got == ReceivedPositionals(e.args)
          IN  \A k \in 1..Len(args) :
                args[k].val.kind = "function"
                => /\ EndsInIndex(args[k].key)
                      => /\ Rank(args, IndexEnded(args), k) <= Len(got)
                         /\ got[Rank(args, IndexEnded(args), k)] = Resolved(args[k].val)
                   /\ ( /\ ~ReservedPrefix(args[k].key)
                        /\ args[k].key = SyntheticPositionalKey
                           => IndexEnded(args) = {} )
                      => /\ HasKey(e.args, args[k].key)
                         /\ Lookup(e.args, args[k].key) = Resolved(args[k].val)

C12_Witness ==
    /\ code[1].args = <<Item(PositionalKey("1"), Value("function", Str("unknown"))),
                        Item(Key("func"), Value("function", Str("track"))),
                        Item(PositionalKey("0"), Value("function", Str("track")))>>
    /\ Len(compile_calls) = 1
    /\ compile_calls[1].args =
          <<Item(Key("func"), BoundHandler("track")),
            Item(SyntheticPositionalKey,
                 List(<<BoundHandler("track"), Str("unknown")>>))>>

\* every entry of the mapping with the reserved prefix is keyed
\* _positional_<i>, and the indices are pairwise distinct
ProperPositionals(args) ==
    /\ \A k \in 1..Len(args) :
          ReservedPrefix(args[k].key) => WellFormedPositional(args[k].key)
    /\ DistinctIndices(args, Positionals(args))

(* C13: when the positional entries of a call are keyed _positional_<i>    *)
(* with pairwise distinct indices, the handler is invoked and gets the     *)
(* positional values in ascending index order, whatever the insertion      *)
(* order of the entries and whatever named entries lie between them.       *)
C13_PositionalsInIndexOrder ==
    /\ (compiled.status # "not run" /\ ProperPositionals(code[1].args))
       => compiled.status = "returned" /\ Len(compile_calls) = 1
    /\ \A n \in 1..Len(compile_calls) :
          LET e == compile_calls[n]
              args == code[e.i].args
          IN  (ProperPositionals(args) /\ Positionals(args) # {})
              => ReceivedPositionals(e.args) = Ascending(args, Positionals(args))

C13_Witness ==
    /\ code[1].args = <<Item(PositionalKey("2"), Value("number", Number("2"))),
                        Item(Key("func"), Value("function", Str("track"))),
                        Item(PositionalKey("0"), Value("function", Str("track")))>>
    /\ Len(compile_calls) = 1
    /\ ReceivedPositionals(compile_calls[1].args)
          = <<BoundHandler("track"), Number("2")>>

\* every entry of the mapping with the reserved prefix is keyed _positional_<i>
NoMalformed(args) ==
    \A k \in 1..Len(args) :
        ReservedPrefix(args[k].key) => WellFormedPositional(args[k].key)

(* C14: the handler finds the positional values of a call (entries keyed   *)
(* _positional_<i>) under the one key _positional: the value itself when   *)
(* there is exactly one, the list of all of them in index order when there *)
(* are two or more, and no key added by coercion when there is none.       *)
C14_SyntheticPositionalKey ==
    (compiled.status # "not run" /\ NoMalformed(code[1].args))
    => LET args == code[1].args
           count == Cardinality(Positionals(args))
       IN  /\ compiled.status = "returned"
           /\ Len(compile_calls) = 1
           /\ LET kw == compile_calls[1].args
              IN  /\ count = 0
                     => (HasKey(kw, SyntheticPositionalKey)
                         => HasKey(args, SyntheticPositionalKey))
                  /\ count = 1
                     => /\ HasKey(kw, SyntheticPositionalKey)
                        /\ \A k \in Positionals(args) :
                              Lookup(kw, SyntheticPositionalKey) = Resolved(args[k].val)
                  /\ count >= 2
                     => /\ HasKey(kw, SyntheticPositionalKey)
                        /\ Lookup(kw, SyntheticPositionalKey).t = "list"
                        /\ Len(Lookup(kw, SyntheticPositionalKey).items) = count
                        /\ DistinctIndices(args, Positionals(args))
                           => Lookup(kw, SyntheticPositionalKey).items
                                 = Ascending(args, Positionals(args))

\* the mapping without its malformed entries
RECURSIVE WithoutMalformed(_)
WithoutMalformed(args) ==
    IF args = <<>> THEN <<>>
    ELSE IF MalformedPositional(Head(args).key) THEN WithoutMalformed(Tail(args))
    ELSE <<Head(args)>> \o WithoutMalformed(Tail(args))

(* C15: an entry whose key has the reserved prefix but whose remainder is  *)
(* no integer is dropped: the call does not fail for it, the handler is    *)
(* invoked, and what the handler gets is what it gets for the call without *)
(* that entry.                                                             *)
C15_MalformedPositionalDropped ==
    (compiled.status # "not run" /\ ~NoMalformed(code[1].args))
    => LET co == CoerceArgs(WithoutMalformed(code[1].args), verb_handlers)
       IN  co.ok
           => /\ compiled.status = "returned"
              /\ Len(compile_calls) = 1
              /\ compile_calls[1].args = co.kwargs

\* every value a handler got, those inside a list included
ReceivedValues(kwargs) ==
    UNION { IF kwargs[n].val.t = "list"
            THEN { kwargs[n].val.items[m] : m \in 1..Len(kwargs[n].val.items) }
            ELSE { kwargs[n].val } : n \in 1..Len(kwargs) }

\* a call with a named argument called _positional and positional values
Collision(args) == HasKey(args, SyntheticPositionalKey) /\ Positionals(args) # {}

(* C16: when a call has a named argument called _positional and positional *)
(* values, coercion does not quietly drop one for the other: the call      *)
(* fails, or the handler gets the named value and every positional value.  *)
C16_CollisionNotSilentlyResolved ==
    ( /\ compiled.status # "not run"
      /\ ProperPositionals(code[1].args)
      /\ Collision(code[1].args) )
    => \/ compiled.status = "raised"
       \/ /\ Len(compile_calls) = 1
          /\ \A k \in 1..Len(code[1].args) :
                Resolved(code[1].args[k].val) \in ReceivedValues(compile_calls[1].args)

----------------------------------------------------------------------------
(* C17: the stream is pull-driven.  Creating it invokes no handler; while  *)
(* it is open the handlers invoked are those of the first calls of the     *)
(* chain, the consumer holds every value of the calls before the latest    *)
(* invoked one and at least one value of that one: the handler of the next *)
(* call has not run before the consumer asked for a value beyond those of  *)
(* the calls so far.                                                       *)
C17_HandlersRunOnDemand ==
    /\ gen.pc = "start" => stream_calls = <<>> /\ streamed.value = <<>>
    /\ streamed.status = "open"
       => /\ InChainOrder(stream_calls, code)
          /\ stream_calls # <<>>
             => LET n == Len(stream_calls)
                    before == Concatenated(stream_calls, n - 1)
                IN  /\ IsPrefix(before, streamed.value)
                    /\ Len(streamed.value) > Len(before)
                    /\ IsPrefix(streamed.value, Concatenated(stream_calls, n))

C17_Witness ==
    /\ Len(code) = 3
    /\ code[1].name = "track" /\ code[2].name = "burst" /\ code[3].name = "mark"
    /\ streamed.status = "open"
    /\ streamed.value = <<Action("create_track"), Action("burst_1"), Action("burst_2")>>
    /\ Len(stream_calls) = 2

(* C18: dropping a stream before it is drained is safe.  Neither the close *)
(* nor any later pull on it runs a handler or hands out a value: the       *)
(* values received stand, the handlers invoked are those of the calls the  *)
(* consumer had reached, and the close gives nothing back.                 *)
C18_AbandonedStreamStands ==
    streamed.status = "abandoned"
    => /\ last_op.op \in {"close", "next"}
       /\ last_op.kind = "stop"
       /\ last_op.invoked = 0
       /\ last_op.added = 0
       /\ InChainOrder(stream_calls, code)
       /\ IsPrefix(streamed.value, Concatenated(stream_calls, Len(stream_calls)))
       /\ stream_calls # <<>>
          => Len(streamed.value)
                > Len(Concatenated(stream_calls, Len(stream_calls) - 1))

C18_Witness ==
    /\ Len(code) = 3
    /\ code[1].name = "track" /\ code[2].name = "burst" /\ code[3].name = "mark"
    /\ streamed.status = "abandoned"
    /\ streamed.value = <<Action("create_track"), Action("burst_1")>>
    /\ Len(stream_calls) = 2
    /\ last_op.op = "next"

(* C19: a stream is single-pass.  Within one stream no call has its        *)
(* handler invoked twice, and a pull on a stream that is exhausted, has    *)
(* failed or was closed gives StopIteration, hands out no value and runs   *)
(* no handler.                                                             *)
C19_SinglePassNotRestartable ==
    /\ \A a, b \in 1..Len(stream_calls) :
          a # b => stream_calls[a].i # stream_calls[b].i
    /\ last_op.ended
       => /\ last_op.kind = "stop"
          /\ last_op.invoked = 0
          /\ last_op.added = 0
    /\ StreamDrained => streamed.value = Concatenated(stream_calls, Len(stream_calls))

C19_Witness ==
    /\ last_op.op = "next" /\ last_op.ended
    /\ streamed.status = "exhausted"
    /\ Len(stream_calls) = 3
    /\ streamed.value = <<Action("create_track"), Action("burst_1"),
                          Action("burst_2"), Action("mark")>>

C19_WitnessFailed ==
    /\ last_op.op = "next" /\ last_op.ended
    /\ streamed.status = "raised"
    /\ Len(streamed.value) >= 2

----------------------------------------------------------------------------
\* the context an invocation hands on to the next call of its pass
ContextFrom(e) ==
    LET r == e.outcome.ret
    IN  IF IsAction(r) THEN r
        ELSE IF r.t = "tuple" THEN r.items[2]
        ELSE IF r.items # <<>> THEN r.items[Len(r.items)]
        ELSE e.context

(* C20: with two streaming passes open on the same interpreter and pulled  *)
(* in any interleaving, every handler invocation of a pass gets as context *)
(* None when it is the first call of the pass and otherwise the context    *)
(* the previous call of the same pass produced, whatever context the other *)
(* pass holds at that moment.                                              *)
C20_PassesKeepOwnContext ==
    \A p \in DOMAIN passes : \A n \in 1..Len(passes[p].calls) :
        LET e == passes[p].calls[n]
        IN  /\ e.i = n
            /\ e.context = IF n = 1 THEN None ELSE ContextFrom(passes[p].calls[n - 1])

C20_Witness ==
    /\ Len(passes[1].calls) = 2 /\ Len(passes[2].calls) = 2
    /\ passes[1].calls[2].context = Action("create_track")
    /\ passes[1].calls[2].left_over = Action("burst_2")
    /\ passes[2].calls[2].context = Action("burst_2")
    /\ passes[2].got = <<Action("burst_1"), Action("burst_2"), Action("create_track")>>

----------------------------------------------------------------------------
\* every log of handler invocations the model keeps
AllLogs ==
    {compile_calls, stream_calls, execute_calls}
        \cup { passes[p].calls : p \in DOMAIN passes }

(* C21: the verb registry is the one built at construction after every     *)
(* sequence of compile, stream and execute operations, failed ones         *)
(* included, so the names that dispatch stay the same: every handler ever  *)
(* invoked is one of the verbs collected at construction.                  *)
C21_RegistryImmutable ==
    /\ verb_handlers = CollectVerbs(DslMembers)
    /\ \A log \in AllLogs : \A n \in 1..Len(log) :
          /\ log[n].verb \in DOMAIN CollectVerbs(DslMembers)
          /\ log[n].verb \in DOMAIN verb_handlers

C21_Witness ==
    /\ compiled.status = "raised"
    /\ Len(compile_calls) = 2
    /\ executed.status = "raised"
    /\ executed.is_str
    /\ Len(execute_calls) = 2
    /\ HasUnknown(code)

----------------------------------------------------------------------------
\* the failed passes over the source text: the exception the caller caught
\* and the handler invocations the pass had made
FailedPasses ==
    { [error |-> compiled.error, log |-> compile_calls] :
          x \in IF compiled.status = "raised" THEN {1} ELSE {} }
    \cup { [error |-> streamed.error, log |-> stream_calls] :
          x \in IF streamed.status = "raised" THEN {1} ELSE {} }
    \cup { [error |-> executed.error, log |-> execute_calls] :
          x \in IF executed.status = "raised" /\ executed.is_str THEN {1} ELSE {} }

(* C22: the caller can tell "not found" from "found but errored".  When    *)
(* the exception a failed pass hands the caller is the one of an unknown   *)
(* verb (its class and its message taken together), the call the pass      *)
(* failed at has no registry entry: no handler the pass invoked has raised *)
(* or returned an invalid result, and the call after the last invocation   *)
(* is the unregistered one the exception names.                            *)
C22_NotFoundDistinguishable ==
    \A f \in FailedPasses :
        f.error.what = "Unknown verb"
        => /\ \A n \in 1..Len(f.log) :
                 /\ ~f.log[n].outcome.raised
                 /\ ResultShape(f.log[n].outcome.ret) # "invalid"
           /\ Len(f.log) < Len(code)
           /\ code[Len(f.log) + 1].name = f.error.verb
           /\ f.error.verb \notin DOMAIN verb_handlers

----------------------------------------------------------------------------
\* execute was given a pre-built list of actions
ExecutedGivenPlan == executed.status # "not run" /\ ~executed.is_str

(* C23 as stated: given a pre-built list, execute runs no handler, the     *)
(* runtime receives exactly the elements of the list, each once and in     *)
(* list order, and the list is unchanged.                                  *)
C23_PlanFedExactly ==
    ExecutedGivenPlan
    => /\ execute_calls = <<>>
       /\ runtime_actions = executed.plan
       /\ executed.plan_after = executed.plan

(* C23 amended: given a pre-built list, execute runs no handler and leaves *)
(* the list unchanged; the runtime receives the elements of the list, each *)
(* once and in list order, up to and including the first one it fails on,  *)
(* and all of them when it fails on none.                                  *)
C23_PlanFedUpToFailure ==
    ExecutedGivenPlan
    => /\ execute_calls = <<>>
       /\ executed.plan_after = executed.plan
       /\ IF RejectsSome(executed.plan, executed.runtime)
          THEN /\ runtime_actions =
                     SubSeq(executed.plan, 1,
                            FirstRejected(executed.plan, executed.runtime))
               /\ executed.status = "raised"
          ELSE /\ runtime_actions = executed.plan
               /\ executed.status = "returned"

C23_Witness ==
    /\ ExecutedGivenPlan
    /\ executed.plan = <<Action("mark"), Action("create_track"), Action("mark")>>
    /\ executed.runtime.rejects # {}
    /\ runtime_actions = <<Action("mark")>>
    /\ Len(compile_calls) >= 1

----------------------------------------------------------------------------
\* the positional values of a call as written, in the order written
WrittenPositionals(args) ==
    SelectSeq(args, LAMBDA it : WellFormedPositional(it.key))
\* element n of a sequence, None when the sequence has no such element
At(xs, n) == IF n <= Len(xs) THEN xs[n] ELSE None
\* a sequence without its first element
Rest(xs) == IF xs = <<>> THEN <<>> ELSE Tail(xs)

\* The action C24 describes for a call to a functional verb with the
\* positional values written: refs are the values as the handler is to get
\* them (bound handler, or raw name), names the identifiers written.
DestructuredAction(name, written) ==
    LET refs == [n \in 1..Len(written) |-> Resolved(written[n].val)]
        names == [n \in 1..Len(written) |-> written[n].val.value]
    IN  CASE name = "map" ->
               ActionWith("map", <<Item(<<"func">>, At(names, 1)),
                                   Item(<<"data">>, At(refs, 2)),
                                   Item(<<"", "func", "ref">>, At(refs, 1))>>)
          [] name = "filter" ->
               ActionWith("filter", <<Item(<<"predicate">>, At(names, 1)),
                                      Item(<<"data">>, At(refs, 2)),
                                      Item(<<"", "predicate", "ref">>, At(refs, 1))>>)
          [] name = "reduce" ->
               ActionWith("reduce", <<Item(<<"func">>, At(names, 1)),
                                      Item(<<"data">>, At(refs, 2)),
                                      Item(<<"initial">>, At(refs, 3)),
                                      Item(<<"", "func", "ref">>, At(refs, 1))>>)
          [] name = "compose" ->
               ActionWith("compose", <<Item(<<"functions">>, List(names)),
                                       Item(<<"", "func", "refs">>, List(refs))>>)
          [] name = "pipe" ->
               ActionWith("pipe", <<Item(<<"data">>, At(refs, 1)),
                                    Item(<<"functions">>, List(Rest(names))),
                                    Item(<<"", "func", "refs">>, List(Rest(refs)))>>)

(* C24: a call to map, filter, reduce, compose or pipe written with        *)
(* positional arguments only compiles to the one action that destructures  *)
(* them by position: map, filter and reduce take the function first, the   *)
(* data second (reduce the initial value third, None when absent); pipe    *)
(* the data first and the rest as functions in order; compose all of them  *)
(* as functions in order.  The name field holds the identifier written and *)
(* the reference field the bound handler of a registered name, the raw     *)
(* string otherwise.                                                       *)
C24_FunctionalVerbsDestructure ==
    ( /\ compiled.status # "not run"
      /\ Len(code) = 1
      /\ code[1].name \in FunctionalVerbs
      /\ \A n \in 1..Len(code[1].args) : WellFormedPositional(code[1].args[n].key) )
    => /\ compiled.status = "returned"
       /\ compiled.value =
             <<DestructuredAction(code[1].name, WrittenPositionals(code[1].args))>>

----------------------------------------------------------------------------
\* an invocation that ended its pass: the handler raised, or returned what
\* the interpreter takes for none of the three result shapes
Failing(e) == e.outcome.raised \/ ResultShape(e.outcome.ret) = "invalid"
\* the pass with invocations log went through the whole chain
PassComplete(log, chain) ==
    /\ Len(log) = Len(chain)
    /\ \A n \in 1..Len(log) : ~Failing(log[n])
\* the call (counted from 1) at which an incomplete pass failed
FailedAt(log) ==
    IF log # <<>> /\ Failing(log[Len(log)]) THEN Len(log) ELSE Len(log) + 1
\* the handler of each of the calls 1..k of the chain was invoked once
EachInvokedOnce(log, chain, k) ==
    \A j \in 1..k :
        Cardinality({ n \in 1..Len(log) : log[n].i = j /\ log[n].verb = chain[j].name }) = 1

(* C25: execute on source text is two-phase.  Whenever the runtime has     *)
(* been called at all, also when it failed on the first action, the        *)
(* handler of every call of the chain has run and none has failed; and     *)
(* when interpretation fails at call k the runtime has received nothing,   *)
(* execute raises the interpretation error, and the handlers of the calls  *)
(* before k have each run once.                                            *)
C25_ExecuteIsTwoPhase ==
    (executed.status # "not run" /\ executed.is_str)
    => /\ runtime_actions # <<>> => PassComplete(execute_calls, code)
       /\ ~PassComplete(execute_calls, code)
          => /\ runtime_actions = <<>>
             /\ executed.status = "raised"
             /\ executed.error # RuntimeFailure
             /\ EachInvokedOnce(execute_calls, code, FailedAt(execute_calls) - 1)

C25_Witness ==
    /\ executed.status = "raised" /\ executed.is_str
    /\ Len(code) = 3
    /\ code[1].name = "track" /\ code[2].name = "burst" /\ code[3].name = "boom"
    /\ Len(execute_calls) = 3
    /\ executed.error = HandlerError("boom")
    /\ runtime_actions = <<>>

(* C26: when the eager form fails at call k, the caller gets the error and *)
(* no action, whatever the calls before k produced, and the handlers of    *)
(* the calls before k have each been invoked once.                         *)
C26_EagerFailureDiscardsActions ==
    (compiled.status # "not run" /\ ~PassComplete(compile_calls, code))
    => /\ compiled.status = "raised"
       /\ compiled.error # NoError
       /\ compiled.value = <<>>
       /\ EachInvokedOnce(compile_calls, code, FailedAt(compile_calls) - 1)
       /\ \A n \in 1..(FailedAt(compile_calls) - 1) : ~Failing(compile_calls[n])

C26_Witness ==
    /\ compiled.status = "raised"
    /\ compiled.value = <<>>
    /\ Len(code) = 3
    /\ code[1].name = "burst" /\ code[2].name = "mark" /\ code[3].name = "nothing"
    /\ FailedAt(compile_calls) = 3
    /\ Len(Concatenated(compile_calls, 2)) = 3
    /\ compiled.error.what = "returned invalid result"

----------------------------------------------------------------------------
(* C27: every value the streaming form has yielded, every element of the   *)
(* list the eager form returned, and every value execute on source text    *)
(* has passed to the runtime is an Action.                                 *)
C27_OutputsAreActions ==
    /\ \A n \in 1..Len(streamed.value) : IsAction(streamed.value[n])
    /\ \A n \in 1..Len(compiled.value) : IsAction(compiled.value[n])
    /\ executed.is_str
       => \A n \in 1..Len(runtime_actions) : IsAction(runtime_actions[n])

----------------------------------------------------------------------------
\* the passes over the source text that were run: status, error and log
RunPasses ==
    { [status |-> compiled.status, error |-> compiled.error, log |-> compile_calls] :
          x \in IF compiled.status # "not run" THEN {1} ELSE {} }
    \cup { [status |-> streamed.status, error |-> streamed.error, log |-> stream_calls] :
          x \in IF streamed.status # "not run" THEN {1} ELSE {} }
    \cup { [status |-> executed.status, error |-> executed.error, log |-> execute_calls] :
          x \in IF executed.status # "not run" /\ executed.is_str THEN {1} ELSE {} }

(* C28: DSL text cannot set the context.  No handler is invoked for a call *)
(* that carries a named argument _context, no handler receives a keyword   *)
(* _context from the arguments, and the context of every invocation is the *)
(* one the loop threads: None for the first call, otherwise what the       *)
(* previous call of the pass produced.  A pass that reaches such a call of *)
(* a registered verb fails there with the TypeError of the call.           *)
C28_ContextNotInjectable ==
    \A p \in RunPasses :
        /\ \A n \in 1..Len(p.log) :
              /\ ~HasKey(code[p.log[n].i].args, ContextKey)
              /\ ~HasKey(p.log[n].args, ContextKey)
              /\ p.log[n].context =
                    IF n = 1 THEN None ELSE ContextFrom(p.log[n - 1])
        /\ ( /\ p.status \in {"returned", "exhausted", "raised"}
             /\ \E k \in 1..Len(code) : HasKey(code[k].args, ContextKey) )
           => /\ p.status = "raised"
              /\ LET k == Len(p.log) + 1
                 IN  ( /\ p.log = <<>> \/ ~Failing(p.log[Len(p.log)])
                       /\ k <= Len(code)
                       /\ HasKey(code[k].args, ContextKey)
                       /\ code[k].name \in DOMAIN verb_handlers )
                     => p.error = DuplicateContextError(code[k].name)

C28_Witness ==
    /\ compiled.status = "raised"
    /\ compiled.error = DuplicateContextError("track")
    /\ Len(code) = 3
    /\ code[1].name = "mark" /\ code[2].name = "burst"
    /\ HasKey(code[3].args, ContextKey)
    /\ Len(compile_calls) = 2
    /\ compile_calls[2].context = Str("state")

----------------------------------------------------------------------------
(* C29: only function references are resolved against the registry.  A     *)
(* value of any other kind that coercion takes as a named or as a          *)
(* positional argument reaches the handler as its raw payload; an          *)
(* identifier or a string whose text is the name of a registered verb      *)
(* reaches it as that string, never as the bound handler.                  *)
C29_OnlyFunctionKindResolved ==
    \A n \in 1..Len(compile_calls) :
        LET e == compile_calls[n]
            args == code[e.i].args
            got == ReceivedPositionals(e.args)
        IN  \A k \in 1..Len(args) :
              args[k].val.kind # "function"
              => /\ EndsInIndex(args[k].key)
                    => /\ Rank(args, IndexEnded(args), k) <= Len(got)
                       /\ got[Rank(args, IndexEnded(args), k)] = args[k].val.value
                       /\ ~Callable(got[Rank(args, IndexEnded(args), k)])
                 /\ ( /\ ~ReservedPrefix(args[k].key)
                      /\ args[k].key = SyntheticPositionalKey
                         => IndexEnded(args) = {} )
                    => /\ HasKey(e.args, args[k].key)
                       /\ Lookup(e.args, args[k].key) = args[k].val.value
                       /\ ~Callable(Lookup(e.args, args[k].key))

C29_Witness ==
    /\ code[1].args = <<Item(PositionalKey("2"), Value("identifier", Str("track"))),
                        Item(Key("label"), Value("string", Str("track"))),
                        Item(PositionalKey("0"), Value("function", Str("track")))>>
    /\ Len(compile_calls) = 1
    /\ compile_calls[1].args =
          <<Item(Key("label"), Str("track")),
            Item(SyntheticPositionalKey,
                 List(<<BoundHandler("track"), Str("track")>>))>>

----------------------------------------------------------------------------
\* What a drained stream has done: its invocations are those of the first
\* calls of the chain, one per call and in order; exhausted, it has invoked
\* the handler of every call and none has failed; failed, it stopped at the
\* first call that did not complete, an unregistered name, a call of the
\* handler that raised (in the handler or in binding its arguments) or a
\* result outside the contract; the values yielded are as many as the
\* results of the invoked handlers hold.
DrainedCounts ==
    StreamDrained
    => /\ InChainOrder(stream_calls, code)
       /\ EachInvokedOnce(stream_calls, code, Len(stream_calls))
       /\ streamed.status = "exhausted" => PassComplete(stream_calls, code)
       /\ streamed.status = "raised"
          => /\ ~PassComplete(stream_calls, code)
             /\ FailedAt(stream_calls) <= Len(code)
             /\ \A n \in 1..(FailedAt(stream_calls) - 1) : ~Failing(stream_calls[n])
             /\ Len(stream_calls) \in {FailedAt(stream_calls) - 1, FailedAt(stream_calls)}
       /\ Len(streamed.value) = Len(YieldedBy(stream_calls))
       /\ gen.pc = "closed"

(* C30: draining the stream of any chain ends: the stream is eventually    *)
(* exhausted or failed, and then it has made one handler invocation per    *)
(* call up to the end of the chain or up to the first failing call, and    *)
(* has yielded as many values as the results of the invoked handlers hold. *)
C30_DrainTerminates ==
    /\ <>StreamDrained
    /\ []DrainedCounts

C30_Witness ==
    /\ streamed.status = "raised"
    /\ Len(code) = 3
    /\ code[1].name = "burst" /\ code[2].name = "track" /\ code[3].name = "foo"
    /\ Len(stream_calls) = 2
    /\ Len(streamed.value) = 3
    /\ gen.pc = "closed"

====
